---- MODULE Spec2Model ----
(***************************************************************************)
(* Model of src/main.rs: the fixed-size ThreadPool (Worker::new,           *)
(* ThreadPool::new, ThreadPool::run, Drop for ThreadPool), the accept loop *)
(* of main with its Ctrl+C flag, and the connection handler the pool runs. *)
(*                                                                         *)
(* Threads are interleaved at the points where they can be observed by     *)
(* another thread: spawning, taking the receiver mutex, returning from     *)
(* recv, calling the job, the job's blocking reads and writes, joining.    *)
(***************************************************************************)
EXTENDS Naturals, Integers, Sequences, FiniteSets, TLC

\* Largest worker count handed to ThreadPool::new (main passes 10).
MaxWorkers == 2
\* Number of connections that arrive at the listener in one run.
MaxConns == 2
\* Longest resource body that is enumerated byte by byte.
MaxBody == 3

VARIABLES
    size,         \* argument of ThreadPool::new
    mainpc,       \* position of the main thread
    tx,           \* ThreadPool.tx: "Some" or "None" ("Uninit": no channel yet)
    queue,        \* jobs in the mpsc channel, oldest first
    rxLock,       \* holder of the Mutex around the Receiver, 0 when free
    poisoned,     \* whether a thread panicked while it held that Mutex
    workers,      \* ThreadPool.workers: one record per Worker
    joinIdx,      \* index of the worker Drop is joining
    pending,      \* connections waiting in the listener's backlog
    arrived,      \* connections that have reached the listener so far
    should_exit,  \* the AtomicBool set by the Ctrl+C handler
    lastPoll,     \* what the last iteration of the accept loop saw
    nsub,         \* number of run calls that returned Ok
    received,     \* jobs in the order recv handed them to workers
    started,      \* per job: how many times its body was called
    outcome,      \* per job: how its handle_connection call ended
    atFlag,       \* connections in the backlog when the flag was first set
    request,      \* response model: the request line that was read
    html,         \* response model: the bytes of the file that was read
    response      \* response model: the bytes written to the stream

vars == <<size, mainpc, tx, queue, rxLock, poisoned, workers, joinIdx, pending,
          arrived, should_exit, lastPoll, nsub, received, started, outcome,
          atFlag, request, html, response>>

\* The variables of the response model. The pool model leaves the bytes of
\* requests, files and responses out: there they keep their initial values.
respVars == <<request, html, response>>

JobIds == 1..MaxConns
NoJob == 0

\* The request lines a peer may send (the two routed ones and another one).
Requests == {"GET / HTTP/1.1", "GET /sleep HTTP/1.1", "GET /x HTTP/1.1"}

\* What reading the first line of the stream can give.
ReadResults == [kind : {"line"}, req : Requests]
                 \cup {[kind |-> "eof", req |-> ""], [kind |-> "err", req |-> ""]}

\* match &request[..] in handle_connection
Route(req) ==
    IF req = "GET / HTTP/1.1"
    THEN [file |-> "index.html", status |-> "200 OK", sleep |-> FALSE]
    ELSE IF req = "GET /sleep HTTP/1.1"
    THEN [file |-> "sleep.html", status |-> "200 OK", sleep |-> TRUE]
    ELSE [file |-> "404.html", status |-> "404 NOT FOUND", sleep |-> FALSE]

\* A Worker as ThreadPool sees it plus the state of its thread.
\*   handle: Worker.thread ("Some" until Drop takes it)
\*   st:     "spawned"  thread created, closure not yet running
\*           "lock"     blocked in receiver.lock()
\*           "recv"     holds the mutex, blocked in recv()
\*           "got"      recv returned Ok(f), f not yet called
\*           "exec"     inside f(): handle_connection is running
\*           "exited"   left the loop through break
\*           "dead"     the thread panicked
NewWorker == [handle |-> "Some", st |-> "spawned", job |-> NoJob]

WorkerIds == 1..Len(workers)

Finished(w) == w.st \in {"exited", "dead"}

\* The Receiver lives in an Arc: one clone per worker closure, and the local
\* rx of ThreadPool::new until new returns.
RxAlive == mainpc = "new" \/ \E i \in WorkerIds : ~Finished(workers[i])

\* The process runs until main returns or the main thread panics.
ProcessAlive == mainpc \notin {"done", "panicked"}

PoolInit ==
    /\ size \in 0..MaxWorkers
    /\ mainpc = "new"
    /\ tx = "Uninit"
    /\ queue = <<>>
    /\ rxLock = 0
    /\ poisoned = FALSE
    /\ workers = <<>>
    /\ joinIdx = 0
    /\ pending = 0
    /\ arrived = 0
    /\ should_exit = FALSE
    /\ lastPoll = "none"
    /\ nsub = 0
    /\ received = <<>>
    /\ started = [j \in JobIds |-> 0]
    /\ outcome = [j \in JobIds |-> "none"]
    /\ atFlag = 0

Init ==
    /\ PoolInit
    /\ request = ""
    /\ html = <<>>
    /\ response = <<>>

----------------------------------------------------------------------------
\* ThreadPool::new

\* A constructor without the assertion.
SizeOkAny(n) == TRUE

\* The condition of assert!(size > 0, "size <= 0")
SizeOk(n) == n > 0

\* The assertion fails: the main thread panics before anything is created.
NewSizeZero ==
    /\ mainpc = "new"
    /\ ~SizeOk(size)
    /\ mainpc' = "panicked"
    /\ UNCHANGED <<respVars, atFlag, size, tx, queue, rxLock, workers, joinIdx, pending,
                   arrived, should_exit, lastPoll, nsub, received, started,
                   outcome, poisoned>>

\* An inclusive range, `0..=size`, in place of `0..size`.
SpawnCountInclusive(n) == n + 1

\* Upper end of the loop `for i in 0..size`.
SpawnCount(n) == n

\* let (tx, rx) = mpsc::channel(); let rx = Arc::new(Mutex::new(rx));
NewChannel ==
    /\ mainpc = "new"
    /\ SizeOk(size)
    /\ tx = "Uninit"
    /\ tx' = "Some"
    /\ UNCHANGED <<respVars, atFlag, size, mainpc, queue, rxLock, workers, joinIdx, pending,
                   arrived, should_exit, lastPoll, nsub, received, started,
                   outcome, poisoned>>

\* workers.push(Worker::new(id, rx.clone()))
NewSpawn ==
    /\ mainpc = "new"
    /\ tx = "Some"
    /\ Len(workers) < SpawnCount(size)
    /\ workers' = Append(workers, NewWorker)
    /\ UNCHANGED <<respVars, atFlag, size, mainpc, tx, queue, rxLock, joinIdx, pending, arrived,
                   should_exit, lastPoll, nsub, received, started, outcome, poisoned>>

\* ThreadPool { tx: Some(tx), workers }, then main installs the Ctrl+C
\* handler, makes the listener non-blocking and enters the accept loop.
NewReturn ==
    /\ mainpc = "new"
    /\ tx = "Some"
    /\ Len(workers) >= SpawnCount(size)
    /\ mainpc' = "loop"
    /\ UNCHANGED <<respVars, atFlag, size, tx, queue, rxLock, workers, joinIdx, pending,
                   arrived, should_exit, lastPoll, nsub, received, started,
                   outcome, poisoned>>

----------------------------------------------------------------------------
\* The environment of main

\* A peer connects to the bound listener. Connections that arrive after the
\* accept loop has ended are never looked at and are left out.
Arrive ==
    /\ mainpc \in {"new", "loop"}
    /\ arrived < MaxConns
    /\ arrived' = arrived + 1
    /\ pending' = pending + 1
    /\ UNCHANGED <<respVars, atFlag, size, mainpc, tx, queue, rxLock, workers, joinIdx,
                   should_exit, lastPoll, nsub, received, started, outcome, poisoned>>

\* The handler installed by ctrlc::set_handler: should_exit.store(true)
\* It is installed after the pool is built; the flag is read by the accept
\* loop only, so interrupts after the loop has ended are left out.
CtrlC ==
    /\ mainpc = "loop"
    /\ should_exit' = TRUE
    /\ atFlag' = IF should_exit THEN atFlag ELSE pending
    /\ UNCHANGED <<respVars, size, mainpc, tx, queue, rxLock, workers, joinIdx, pending,
                   arrived, lastPoll, nsub, received, started, outcome, poisoned>>

----------------------------------------------------------------------------
\* ThreadPool::run

\* A channel that hands out the newest job first.
EnqueueFront(q, job) == <<job>> \o q

\* tx.send(Box::new(job)): the channel appends at the tail.
Enqueue(q, job) == Append(q, job)

\* run without the `if let Some(tx)` test: it sends whatever the state of tx.
RunResultNoCheck(t, rxAlive) == IF rxAlive THEN "Ok" ELSE "panic"

\* The three ways a call of run can end in a pool state:
\*   "Ok"    the job was sent
\*   "Err"   Err("sender already dropped")
\*   "panic" send failed (no Receiver left) and .unwrap() panicked
RunResult(t, rxAlive) ==
    IF t = "Some"
    THEN IF rxAlive THEN "Ok" ELSE "panic"
    ELSE "Err"

\* The queue after a call of run.
RunQueue(t, rxAlive, q, job) ==
    IF RunResult(t, rxAlive) = "Ok" THEN Enqueue(q, job) ELSE q

----------------------------------------------------------------------------
\* The accept loop of main: for stream in tcp_listener.incoming()

\* An Ok branch that looks at the flag as the would-block branch does.
AfterAcceptOkCheck(flag) == IF flag THEN "drop" ELSE "loop"

\* Where main goes after the branch Ok(stream) => { .. } when run returned
\* Ok: to the next iteration, without a look at the flag.
AfterAcceptOk(flag) == "loop"

\* Ok(stream): pool.run(move || handle_connection(stream)).unwrap()
AcceptOk ==
    /\ mainpc = "loop"
    /\ pending > 0
    /\ pending' = pending - 1
    /\ lastPoll' = "ok"
    /\ queue' = RunQueue(tx, RxAlive, queue, nsub + 1)
    /\ IF RunResult(tx, RxAlive) = "Ok"
       THEN /\ nsub' = nsub + 1
            /\ mainpc' = AfterAcceptOk(should_exit)
       ELSE \* .unwrap() of run's result, or of send's inside run: main
            \* panics; unwinding drops the pool, whose join().unwrap() on
            \* a dead worker panics again and the process aborts.
            /\ nsub' = nsub
            /\ mainpc' = "panicked"
    /\ UNCHANGED <<respVars, atFlag, size, tx, rxLock, workers, joinIdx, arrived, should_exit,
                   received, started, outcome, poisoned>>

\* A would-block branch that never looks at the flag.
ShouldBreakNever(flag) == FALSE

\* if should_exit.load(Ordering::SeqCst) { break }
ShouldBreak(flag) == flag

\* Err(err) if err.kind() == ErrorKind::WouldBlock
AcceptWouldBlock ==
    /\ mainpc = "loop"
    /\ pending = 0
    /\ lastPoll' = "wouldblock"
    /\ mainpc' = IF ShouldBreak(should_exit) THEN "drop" ELSE "loop"
    /\ UNCHANGED <<respVars, atFlag, size, tx, queue, rxLock, workers, joinIdx, pending,
                   arrived, should_exit, nsub, received, started, outcome,
                   poisoned>>

\* An error branch that looks at the flag as the would-block branch does.
AfterAcceptErrCheck(flag) == IF flag THEN "drop" ELSE "loop"

\* Where main goes after the branch Err(err) => { println!(..) }: to the
\* next iteration, without a look at the flag.
AfterAcceptErr(flag) == "loop"

\* Err(err): println!("Failed connection {err}")
AcceptErr ==
    /\ mainpc = "loop"
    /\ lastPoll' = "error"
    /\ mainpc' = AfterAcceptErr(should_exit)
    /\ UNCHANGED <<respVars, atFlag, size, tx, queue, rxLock, workers, joinIdx, pending,
                   arrived, should_exit, nsub, received, started, outcome, poisoned>>

----------------------------------------------------------------------------
\* Drop for ThreadPool, run when main leaves scope after the loop

\* A drop that leaves the Sender in the pool.
TakeTxKeep(t) == t

\* self.tx after `let tx = self.tx.take(); drop(tx);`
TakeTx(t) == "None"

\* let tx = self.tx.take(); drop(tx);
DropTx ==
    /\ mainpc = "drop"
    /\ tx' = TakeTx(tx)
    /\ joinIdx' = 1
    /\ mainpc' = IF Len(workers) = 0 THEN "done" ELSE "join"
    /\ UNCHANGED <<respVars, atFlag, size, queue, rxLock, workers, pending, arrived,
                   should_exit, lastPoll, nsub, received, started, outcome, poisoned>>

\* A drop that takes the handles without waiting for the threads.
JoinReadyNoWait(w) == TRUE

\* thread.join() returns once the thread has finished.
JoinReady(w) == Finished(w)

\* for worker in &mut self.workers {
\*     if let Some(thread) = worker.thread.take() { thread.join().unwrap(); } }
JoinStep ==
    /\ mainpc = "join"
    /\ joinIdx \in WorkerIds
    /\ LET w == workers[joinIdx] IN
       IF w.handle = "Some"
       THEN /\ JoinReady(w)
            /\ workers' = [workers EXCEPT ![joinIdx].handle = "None"]
            /\ IF w.st = "dead"
               THEN \* join() is Err: unwrap panics out of drop
                    /\ mainpc' = "panicked"
                    /\ joinIdx' = joinIdx
               ELSE /\ joinIdx' = joinIdx + 1
                    /\ mainpc' = IF joinIdx = Len(workers) THEN "done" ELSE "join"
       ELSE /\ workers' = workers
            /\ joinIdx' = joinIdx + 1
            /\ mainpc' = IF joinIdx = Len(workers) THEN "done" ELSE "join"
    /\ UNCHANGED <<respVars, atFlag, size, tx, queue, rxLock, pending, arrived, should_exit,
                   lastPoll, nsub, received, started, outcome,
                   poisoned>>

----------------------------------------------------------------------------
\* The worker thread: loop { let f = receiver.lock().unwrap().recv(); ... }

\* The spawned thread starts running the closure and calls receiver.lock().
WStart(i) ==
    /\ ProcessAlive
    /\ workers[i].st = "spawned"
    /\ workers' = [workers EXCEPT ![i].st = "lock"]
    /\ UNCHANGED <<respVars, atFlag, size, mainpc, tx, queue, rxLock, joinIdx, pending, arrived,
                   should_exit, lastPoll, nsub, received, started, outcome, poisoned>>

\* receiver.lock().unwrap(): the mutex is granted to one waiting thread;
\* on a poisoned mutex lock() is Err and unwrap panics.
WLock(i) ==
    /\ ProcessAlive
    /\ workers[i].st = "lock"
    /\ rxLock = 0
    /\ IF poisoned
       THEN /\ workers' = [workers EXCEPT ![i].st = "dead"]
            /\ rxLock' = rxLock
       ELSE /\ workers' = [workers EXCEPT ![i].st = "recv"]
            /\ rxLock' = i
    /\ UNCHANGED <<respVars, atFlag, size, mainpc, tx, queue, joinIdx, pending, arrived,
                   should_exit, lastPoll, nsub, received, started, outcome, poisoned>>

\* A recv that reports the disconnection before it looks at the queue.
RecvResultDisconnectFirst(q, t) ==
    IF t = "None" THEN "Err"
    ELSE IF q # <<>> THEN "Ok"
    ELSE "Block"

\* A recv that hands out the oldest job without removing it.
RecvRestPeek(q) == q

\* Receiver::recv: a queued job if there is one, Err once the Sender is
\* dropped and the queue is empty, and blocks otherwise.
RecvResult(q, t) ==
    IF q # <<>> THEN "Ok"
    ELSE IF t = "None" THEN "Err"
    ELSE "Block"

\* The queue after a successful recv.
RecvRest(q) == Tail(q)

\* A guard that lives through the match, as in `match rx.lock().unwrap().recv()`.
GuardAfterLetHeld(i) == i

\* The mutex holder after `let f = receiver.lock().unwrap().recv();`: the
\* MutexGuard is a temporary of the let statement and is dropped at its end.
GuardAfterLet(i) == 0

\* recv() returns and the statement ends, before the match.
WRecv(i) ==
    /\ ProcessAlive
    /\ workers[i].st = "recv"
    /\ RecvResult(queue, tx) # "Block"
    /\ rxLock' = GuardAfterLet(i)
    /\ IF RecvResult(queue, tx) = "Ok"
       THEN /\ workers' = [workers EXCEPT ![i].st = "got", ![i].job = Head(queue)]
            /\ queue' = RecvRest(queue)
            /\ received' = Append(received, Head(queue))
       ELSE \* Err(_): println!, break, the thread returns
            /\ workers' = [workers EXCEPT ![i].st = "exited"]
            /\ UNCHANGED <<queue, received>>
    /\ UNCHANGED <<respVars, atFlag, size, mainpc, tx, joinIdx, pending, arrived, should_exit,
                   lastPoll, nsub, started, outcome, poisoned>>

\* Ok(f) => { println!("Got a new task"); f(); }: the job body is entered.
WCall(i) ==
    /\ ProcessAlive
    /\ workers[i].st = "got"
    /\ workers' = [workers EXCEPT ![i].st = "exec"]
    /\ started' = [started EXCEPT ![workers[i].job] = @ + 1]
    /\ UNCHANGED <<respVars, atFlag, size, mainpc, tx, queue, rxLock, joinIdx, pending, arrived,
                   should_exit, lastPoll, nsub, received, outcome,
                   poisoned>>

\* The job returns to the top of the loop.
AfterJob(w) == [w EXCEPT !.st = "lock", !.job = NoJob]
\* The job panics: the thread unwinds and ends.
AfterPanic(w) == [w EXCEPT !.st = "dead"]
\* A build in which a panic aborts the process (panic = "abort").
PanicScopeProcess(pc) == "panicked"
\* A panic in a spawned thread unwinds that thread only: the main thread goes
\* on where it is.
PanicScope(pc) == pc
\* Unwinding poisons the receiver mutex if the panicking thread holds its guard.
PoisonedBy(i, panics) == poisoned \/ (panics /\ rxLock = i)

\* response_file(stream, fname, status): fs::read_to_string(fname).unwrap(),
\* then stream.write_all(response.as_bytes()).unwrap(). The file is read
\* first: its unwrap panics before anything is written.
ResponseFile(fname, status, fileOk, writeOk) ==
    IF ~fileOk THEN "panic_file"
    ELSE IF ~writeOk THEN "panic_write"
    ELSE "responded"

\* How a call of handle_connection ends, given what the first read of the
\* stream gives and whether the file read and the write succeed:
\*   match reader.lines().next().unwrap() { Ok(request) => ..., Err(err) => ... }
HandleResult(r, fileOk, writeOk) ==
    IF r.kind = "eof" THEN "panic_eof"          \* next() is None: unwrap panics
    ELSE IF r.kind = "err" THEN "logged"        \* println!, return
    ELSE ResponseFile(Route(r.req).file, Route(r.req).status, fileOk, writeOk)

\* What a job meets: the first read of its stream, and, where a request
\* line was read, the read of the file and, where that succeeded, the write.
JobInputs ==
    {x \in [r : ReadResults, fileOk : BOOLEAN, writeOk : BOOLEAN] :
        /\ x.r.kind # "line" => x.fileOk
        /\ ~x.fileOk => x.writeOk
        /\ x.r.kind # "line" => x.writeOk}

\* The body of the job, handle_connection(stream), from its call to its
\* return or panic. Its reads, its sleep and its write block this thread
\* only and touch nothing another thread can see.
HandleConnection(i, r, fileOk, writeOk) ==
    /\ ProcessAlive
    /\ workers[i].st = "exec"
    /\ LET j == workers[i].job
           res == HandleResult(r, fileOk, writeOk)
           panics == res \in {"panic_eof", "panic_file", "panic_write"}
       IN  /\ outcome' = [outcome EXCEPT ![j] = res]
           /\ workers' = [workers EXCEPT
                              ![i] = IF panics THEN AfterPanic(@) ELSE AfterJob(@)]
           /\ poisoned' = PoisonedBy(i, panics)
           /\ mainpc' = IF panics THEN PanicScope(mainpc) ELSE mainpc
    /\ UNCHANGED <<respVars, atFlag, size, tx, queue, rxLock, joinIdx, pending, arrived,
                   should_exit, lastPoll, nsub, received, started>>

----------------------------------------------------------------------------
Next ==
    \/ NewSizeZero
    \/ NewChannel
    \/ NewSpawn
    \/ NewReturn
    \/ Arrive
    \/ CtrlC
    \/ AcceptOk
    \/ AcceptWouldBlock
    \/ AcceptErr
    \/ DropTx
    \/ JoinStep
    \/ \E i \in WorkerIds : WStart(i)
    \/ \E i \in WorkerIds : WLock(i)
    \/ \E i \in WorkerIds : WRecv(i)
    \/ \E i \in WorkerIds : WCall(i)
    \/ \E i \in WorkerIds, x \in JobInputs :
           HandleConnection(i, x.r, x.fileOk, x.writeOk)

Spec == Init /\ [][Next]_vars

\* The steps of worker i that the scheduler alone decides: they wait for no
\* peer and no file, so a thread that can take one eventually does.
WorkerStep(i) ==
    /\ i \in WorkerIds
    /\ WStart(i) \/ WLock(i) \/ WRecv(i) \/ WCall(i)

\* Fair scheduling of the worker threads. Nothing is assumed about the jobs
\* (a read may block for ever) nor about the main thread.
WorkerFairSpec == Spec /\ \A i \in 1..MaxWorkers : WF_vars(WorkerStep(i))

\* Fair scheduling of every thread: the worker threads as above, and the main
\* thread while it runs Drop (dropping the sender, joining a finished
\* thread). Nothing is assumed about the jobs.
TeardownFairSpec ==
    /\ Spec
    /\ WF_vars(DropTx \/ JoinStep)
    /\ \A i \in 1..MaxWorkers : WF_vars(WorkerStep(i))

----------------------------------------------------------------------------
\* response_file as a function from the status phrase and the bytes of the
\* file to the bytes written. A byte is a one-character string.

CRLF == <<"\r", "\n">>

\* The bytes of the two status phrases handle_connection passes.
Bytes(status) ==
    IF status = "200 OK"
    THEN <<"2", "0", "0", " ", "O", "K">>
    ELSE <<"4", "0", "4", " ", "N", "O", "T", " ", "F", "O", "U", "N", "D">>

Digits == <<"0", "1", "2", "3", "4", "5", "6", "7", "8", "9">>

\* format!("{}", n) for a usize: its decimal digits, most significant first.
RECURSIVE Decimal(_)
Decimal(n) ==
    IF n < 10 THEN <<Digits[n + 1]>>
    ELSE Decimal(n \div 10) \o <<Digits[(n % 10) + 1]>>

\* format!("HTTP/1.1 {status}")
StatusLine(status) ==
    <<"H", "T", "T", "P", "/", "1", ".", "1", " ">> \o Bytes(status)

HeaderName ==
    <<"C", "o", "n", "t", "e", "n", "t", "-", "L", "e", "n", "g", "t", "h", ":", " ">>

\* format!("Content-Length: {}", html.len())
ContentLenHeader(body) == HeaderName \o Decimal(Len(body))

\* A response that ends with the body.
ResponseBodyLast(status, body) ==
    StatusLine(status) \o CRLF \o ContentLenHeader(body) \o CRLF \o CRLF \o body

\* format!("{status_line}\r\n{content_len_header}\r\n\r\n{html}\r\n\r\n")
Response(status, body) ==
    StatusLine(status) \o CRLF \o ContentLenHeader(body) \o CRLF \o CRLF
        \o body \o CRLF \o CRLF

\* The bytes a resource file is made of here.
BodyBytes == {"h", "\r", "\n"}

\* The resource bodies tried: every one of up to MaxBody bytes, and one long
\* enough for a Content-Length of two digits.
Bodies ==
    UNION {[1..n -> BodyBytes] : n \in 0..MaxBody} \cup {[k \in 1..12 |-> "h"]}

\* A request line has been read and its file has been read.
ResponseInit ==
    /\ PoolInit
    /\ size = 0
    /\ request \in Requests
    /\ html \in Bodies
    /\ response = <<>>

\* stream.write_all(response.as_bytes()) with the status phrase the match
\* in handle_connection chose.
WriteResponse ==
    /\ response = <<>>
    /\ response' = Response(Route(request).status, html)
    /\ UNCHANGED <<request, html, atFlag, size, mainpc, tx, queue, rxLock, poisoned,
                   workers, joinIdx, pending, arrived, should_exit, lastPoll,
                   nsub, received, started, outcome>>

ResponseNext == WriteResponse

ResponseSpec == ResponseInit /\ [][ResponseNext]_vars

----------------------------------------------------------------------------
\* Properties

Count(seq, x) == Cardinality({k \in 1..Len(seq) : seq[k] = x})
Completed(j) == outcome[j] \in {"responded", "logged"}
Panicked(j) == outcome[j] \in {"panic_eof", "panic_file", "panic_write"}
Holding(i) == workers[i].st \in {"got", "exec"}
\* Waiting as in the worker's loop: blocked in line 24, on the mutex or in recv.
Waiting(i) == workers[i].st \in {"lock", "recv"}
NoWorkerDead == \A i \in WorkerIds : workers[i].st # "dead"

\* C1: every job accepted by run is at each moment either still in the queue
\* or has been handed by recv to exactly one worker; its body has been called
\* at most once, and no two workers hold the same job.
C1_ExactlyOneReceiver ==
    /\ \A j \in 1..nsub :
          /\ Count(queue, j) + Count(received, j) = 1
          /\ started[j] <= 1
          /\ started[j] <= Count(received, j)
    /\ \A i, k \in WorkerIds :
          (i # k /\ workers[i].job # NoJob) => workers[i].job # workers[k].job
\* Two workers execute two different jobs at the same time.
C1_Witness ==
    \E i, k \in WorkerIds :
        i # k /\ workers[i].st = "exec" /\ workers[k].st = "exec"

\* C2: when ThreadPool::drop has returned, every job for which run returned
\* Ok has been executed to completion and nothing is left in the queue.
C2_NoJobLostAtTeardown ==
    mainpc = "done" =>
        /\ queue = <<>>
        /\ \A j \in 1..nsub : Completed(j) /\ started[j] = 1
\* Teardown returned after two jobs were submitted.
C2_Witness == mainpc = "done" /\ nsub >= 2 /\ Len(workers) >= 2

\* C3: when ThreadPool::drop has returned, every one of the size workers has
\* exited and has been joined: none is waiting, holds a job or executes one.
C3_DropJoinsAllWorkers ==
    mainpc = "done" =>
        /\ Len(workers) = size
        /\ \A i \in WorkerIds :
              /\ workers[i].st = "exited"
              /\ workers[i].handle = "None"
              /\ ~Holding(i) /\ ~Waiting(i)
\* Teardown returned for a pool of two workers that had executed a job.
C3_Witness ==
    mainpc = "done" /\ Len(workers) >= 2 /\ \E j \in JobIds : Completed(j)

\* C4: once the sending half has been taken out of the pool, a call of run
\* with any job returns Err("sender already dropped") and leaves the queue
\* as it is, whatever is queued and whatever the workers are doing.
C4_RunAfterTeardownIsErr ==
    tx = "None" =>
        \A j \in JobIds :
            /\ RunResult(tx, RxAlive) = "Err"
            /\ RunQueue(tx, RxAlive, queue, j) = queue
\* Teardown has begun while a job is queued and a worker is executing another.
C4_Witness ==
    /\ tx = "None"
    /\ mainpc = "join"
    /\ queue # <<>>
    /\ \E i \in WorkerIds : workers[i].st = "exec"

\* C5: while the pool is Ready every call of run (made by the accept loop for
\* an accepted connection) returns Ok and appends the job to the queue; it
\* does not fail or panic, whatever the workers are doing or earlier jobs did.
C5_RunReadyIsOk ==
    [][(mainpc = "loop" /\ tx = "Some" /\ AcceptOk) =>
          /\ nsub' = nsub + 1
          /\ queue' = Append(queue, nsub + 1)
          /\ mainpc' = "loop"]_vars

\* C6 as claimed: if job a was submitted before job b, then b does not start
\* executing before a has started.
C6_StartInSubmissionOrder ==
    \A a, b \in 1..nsub :
        (a < b /\ started[b] > 0) => started[a] > 0
\* C6 as amended: jobs are handed to the workers in the order submitted
\* (the k-th job received is the k-th job submitted), and a pool of one
\* worker also starts them in that order.
C6_ReceiveInSubmissionOrder ==
    /\ \A k \in 1..Len(received) : received[k] = k
    /\ Len(workers) = 1 =>
          \A a, b \in JobIds : (a < b /\ started[b] > 0) => started[a] > 0
\* Two jobs were received in submission order by two workers and the second
\* one was called first.
C6_Witness ==
    /\ Len(received) >= 2
    /\ started[2] = 1
    /\ started[1] = 0

\* C7 as claimed: when new has returned and no job has been submitted yet,
\* there are size workers and every one of them is Waiting.
C7_AllWaitingWhenNewReturns ==
    (mainpc = "loop" /\ nsub = 0) =>
        /\ Len(workers) = size
        /\ \A i \in WorkerIds : Waiting(i)
\* C7 as amended: no job is submitted while new runs; from the return of new
\* on the pool owns exactly size workers; and until the first job is
\* submitted no worker holds a job or has ended: each is not yet running,
\* waits for the receiver mutex, or (one at most) is blocked in recv.
C7_WorkersWhenNewReturns ==
    /\ mainpc = "new" => (nsub = 0 /\ Len(workers) <= size)
    /\ (mainpc # "new" /\ size > 0) => Len(workers) = size
    /\ (mainpc = "loop" /\ nsub = 0) =>
          /\ \A i \in WorkerIds : workers[i].st \in {"spawned", "lock", "recv"}
          /\ Cardinality({i \in WorkerIds : workers[i].st = "recv"}) <= 1
          /\ queue = <<>>
\* new has returned while one worker is blocked in recv and another has not
\* started running.
C7_Witness ==
    /\ mainpc = "loop"
    /\ nsub = 0
    /\ \E i, k \in WorkerIds :
          workers[i].st = "recv" /\ workers[k].st = "spawned"

\* C8: an error in the handling of one connection leaves every worker alive
\* and the main thread running or returned.
C8_ConnectionErrorContained ==
    (\E j \in JobIds : outcome[j] = "logged" \/ Panicked(j)) =>
        /\ NoWorkerDead
        /\ mainpc # "panicked"

C10_AcceptedAreHandled ==
    mainpc = "done" =>
        /\ should_exit
        /\ nsub = arrived - pending
        /\ \A j \in 1..(arrived - pending) :
              Completed(j) /\ Count(received, j) = 1
\* main returned after every connection of the run had arrived, been
\* accepted and been handled.
C10_Witness ==
    /\ mainpc = "done"
    /\ should_exit
    /\ arrived = MaxConns
    /\ \A j \in JobIds : Completed(j)

\* C11: ThreadPool::new(0) panics on its assertion before anything is built:
\* with size 0 there is never a channel, a worker or a pool in the accept
\* loop, and nothing is ever submitted; the only step is the panic.
C11_NewZeroFailsFast ==
    size = 0 =>
        /\ tx = "Uninit"
        /\ workers = <<>>
        /\ queue = <<>>
        /\ nsub = 0
        /\ mainpc \in {"new", "panicked"}
\* new(0) has panicked.
C11_Witness == size = 0 /\ mainpc = "panicked"

\* C12 as claimed: once the resource file of a response could not be read the
\* process is over: no further connection is submitted and no further job is
\* started.
C12_FileFailureEndsProcess ==
    [][(\E j \in JobIds : outcome[j] = "panic_file") =>
          (nsub' = nsub /\ started' = started)]_vars
\* C12 as amended: the step in which the file cannot be read ends the worker
\* thread that ran the job and nothing else: the main thread stays where it
\* is, the process goes on, the queue, the mutex and every other worker are
\* untouched.
C12_FileFailureEndsWorkerOnly ==
    [][\A i \in WorkerIds :
          (\E r \in ReadResults, w \in BOOLEAN :
               r.kind = "line" /\ HandleConnection(i, r, FALSE, w)) =>
              /\ workers'[i].st = "dead"
              /\ outcome'[workers[i].job] = "panic_file"
              /\ mainpc' = mainpc
              /\ ProcessAlive'
              /\ queue' = queue /\ rxLock' = rxLock /\ ~poisoned'
              /\ \A k \in WorkerIds : k # i => workers'[k] = workers[k]]_vars
\* After a file read failure the accept loop is still running and another
\* worker is executing a job that was submitted later.
C12_Witness ==
    /\ outcome[1] = "panic_file"
    /\ mainpc = "loop"
    /\ \E i \in WorkerIds : workers[i].st = "exec" /\ workers[i].job = 2

\* The worker states of the design: Waiting (blocked in line 24), Executing
\* (a dequeued job in hand), Exited (left the loop), and, in addition, a
\* thread that has not run yet and a thread ended by a panic.
Phase(w) ==
    IF w.st = "spawned" THEN "Unstarted"
    ELSE IF w.st \in {"lock", "recv"} THEN "Waiting"
    ELSE IF w.st \in {"got", "exec"} THEN "Executing"
    ELSE IF w.st = "exited" THEN "Exited"
    ELSE "Dead"
\* The transitions of worker i that the design names, in one step.
DesignStep(i) ==
    LET p == Phase(workers[i])
        q == Phase(workers'[i])
    IN  \/ p = q
        \/ p = "Unstarted" /\ q = "Waiting"
        \/ /\ p = "Waiting" /\ q = "Executing"
           /\ queue # <<>>
           /\ workers'[i].job = Head(queue)
           /\ queue' = Tail(queue)
        \/ /\ p = "Executing" /\ q = "Waiting"
           /\ outcome'[workers[i].job] \in {"responded", "logged"}
        \/ /\ p = "Waiting" /\ q = "Exited"
           /\ tx = "None"
           /\ queue = <<>>
\* The transition a panicking job adds.
PanicStep(i) ==
    /\ Phase(workers[i]) = "Executing"
    /\ Phase(workers'[i]) = "Dead"
    /\ outcome'[workers[i].job] \in {"panic_eof", "panic_file", "panic_write"}

\* C13 as claimed: the only transitions of a worker are Waiting to Executing
\* on a successful dequeue, Executing to Waiting when the job returns and
\* Waiting to Exited when recv reports the closed, empty channel; a started
\* job is always finished.
C13_OnlyDesignTransitions ==
    [][\A i \in WorkerIds : DesignStep(i)]_vars
\* C13 as amended: besides those transitions a worker has one more, from
\* Executing to a dead thread when the job panics; it never leaves the loop
\* through break while it holds a job, and an exited or dead worker takes
\* no further step.
C13_DesignOrPanicTransitions ==
    [][\A i \in WorkerIds :
          /\ DesignStep(i) \/ PanicStep(i)
          /\ Finished(workers[i]) => workers'[i].st = workers[i].st
          /\ workers'[i].st = "exited" => ~Holding(i)]_vars
\* One worker has left the loop through break and another was ended by a
\* panicking job.
C13_Witness ==
    \E i, k \in WorkerIds :
        workers[i].st = "exited" /\ workers[k].st = "dead"

IdleWorker == \E i \in WorkerIds : Phase(workers[i]) \in {"Unstarted", "Waiting"}

\* C14 as claimed: whenever a job is queued and some worker is not executing
\* a job, that job is eventually dequeued and its body called, whatever the
\* other workers do (here: as long as the process lives and no job panics).
C14_QueuedJobIsDequeued ==
    \A j \in JobIds :
        (Count(queue, j) > 0 /\ IdleWorker)
            ~> \/ started[j] > 0
               \/ ~ProcessAlive
               \/ \E k \in JobIds : Panicked(k)
\* C14 as amended: no worker holds the receiver mutex while it has a job in
\* hand, and whenever the queue is not empty and some worker is not
\* executing a job, the job at the head of the queue is eventually dequeued
\* and its body called, unless the process ends first.
C14_HeadJobIsDequeued ==
    /\ [](\A i \in WorkerIds : Holding(i) => rxLock # i)
    /\ \A j \in JobIds :
          (queue # <<>> /\ Head(queue) = j /\ IdleWorker)
              ~> (started[j] > 0 \/ ~ProcessAlive)
\* A job is dequeued by one worker while the other one is inside a job.
C14_Witness ==
    \E i, k \in WorkerIds :
        /\ workers[i].st = "exec" /\ workers[i].job = 1
        /\ workers[k].st = "got" /\ workers[k].job = 2

\* C15: an iteration of the accept loop that sees an error other than
\* would-block submits nothing and leaves the queue, the sender, the mutex and
\* the workers as they are; it goes on to the next iteration whatever the
\* shutdown flag says; and the loop is left through break only by a
\* would-block iteration with the flag set.
C15_AcceptErrorHasNoEffect ==
    [][/\ (mainpc = "loop" /\ AcceptErr) =>
              /\ mainpc' = "loop"
              /\ nsub' = nsub /\ pending' = pending
              /\ queue' = queue /\ tx' = tx
              /\ workers' = workers /\ rxLock' = rxLock
              /\ should_exit' = should_exit
       /\ (mainpc = "loop" /\ mainpc' = "drop") =>
              (AcceptWouldBlock /\ should_exit)]_vars
\* The last iteration saw an accept error while the flag was set, a job was
\* queued and a connection was waiting: the loop goes on.
C15_Witness ==
    /\ lastPoll = "error"
    /\ mainpc = "loop"
    /\ should_exit
    /\ queue # <<>>
    /\ pending > 0

\* A response as its reader takes it apart.
IsCRLFAt(out, k) == k + 1 <= Len(out) /\ SubSeq(out, k, k + 1) = CRLF
IsBlankAt(out, k) == k + 3 <= Len(out) /\ SubSeq(out, k, k + 3) = CRLF \o CRLF
\* Where the first line ends, and where the header block ends.
FirstCRLF(out) ==
    CHOOSE k \in 1..Len(out) :
        IsCRLFAt(out, k) /\ \A m \in 1..(k - 1) : ~IsCRLFAt(out, m)
BlankPos(out) ==
    CHOOSE k \in 1..Len(out) :
        IsBlankAt(out, k) /\ \A m \in 1..(k - 1) : ~IsBlankAt(out, m)
BytesAfterBlank(out) == Len(out) - (BlankPos(out) + 3)
DigitValue(c) == CHOOSE d \in 0..9 : Digits[d + 1] = c
RECURSIVE ParseDecimal(_)
ParseDecimal(ds) ==
    IF ds = <<>> THEN 0
    ELSE ParseDecimal(SubSeq(ds, 1, Len(ds) - 1)) * 10 + DigitValue(ds[Len(ds)])
\* The header line, and the number it announces.
HeaderLine(out) == SubSeq(out, FirstCRLF(out) + 2, BlankPos(out) - 1)
AnnouncedLength(out) ==
    ParseDecimal(SubSeq(HeaderLine(out), Len(HeaderName) + 1, Len(HeaderLine(out))))

\* C16: what response_file writes is the status line, the Content-Length
\* header, a blank line and the body, each line ended by CRLF, and the number
\* of bytes after the blank line is the number the header announces.
C16_ResponseMatchesContentLength ==
    response # <<>> =>
        /\ response = ResponseBodyLast(Route(request).status, html)
        /\ BytesAfterBlank(response) = AnnouncedLength(response)
\* What is written: the header announces the length of the file, and four
\* more bytes than announced, CR LF CR LF, follow the blank line.
ResponseHasFourBytesMore ==
    response # <<>> =>
        /\ SubSeq(response, 1, FirstCRLF(response) - 1)
               = StatusLine(Route(request).status)
        /\ SubSeq(HeaderLine(response), 1, Len(HeaderName)) = HeaderName
        /\ AnnouncedLength(response) = Len(html)
        /\ BytesAfterBlank(response) = Len(html) + 4
        /\ SubSeq(response, BlankPos(response) + 4, Len(response))
               = html \o CRLF \o CRLF

\* A job whose body has been entered and has neither returned nor panicked.
InProgress(j) == started[j] > 0 /\ outcome[j] = "none"

\* C17: at most size jobs are in progress at a time; each of them is in the
\* hands of exactly one worker thread, which has received it from the channel,
\* and a worker inside a job is inside one job; the step of the main thread
\* that calls run enters no job body and finishes none.
C17_ConcurrencyBoundedBySize ==
    /\ [](/\ Cardinality({j \in JobIds : InProgress(j)}) <= size
          /\ Len(workers) <= size
          /\ \A j \in JobIds :
                InProgress(j) =>
                    /\ Count(received, j) = 1
                    /\ Cardinality({i \in WorkerIds :
                           workers[i].st = "exec" /\ workers[i].job = j}) = 1
          /\ \A i \in WorkerIds :
                workers[i].st = "exec" => InProgress(workers[i].job))
    /\ [][AcceptOk => (started' = started /\ outcome' = outcome)]_vars
\* The only worker of a pool of one is inside the first job while the second
\* job waits in the queue.
C17_Witness ==
    /\ size = 1
    /\ \E i \in WorkerIds : workers[i].st = "exec"
    /\ InProgress(1)
    /\ queue = <<2>>

\* Every job whose body is entered returns: again and again there is a moment
\* at which every job entered so far has returned (a job once entered stays
\* entered, so this says of each job that it returns after it was entered).
EveryJobReturns == []<>(\A j \in JobIds : started[j] > 0 => Completed(j))

\* C18: if every job returns, then once the accept loop has been left and
\* Drop begins, Drop returns: the sender is dropped, every worker leaves its
\* loop and every worker is joined, wherever the workers were at that moment.
C18_TeardownTerminates ==
    EveryJobReturns => ((mainpc = "drop") ~> (mainpc = "done"))
\* The sender has been dropped and Drop waits in join while one worker is
\* blocked in recv with the mutex, and the other is inside a job.
C18_Witness ==
    /\ mainpc = "join"
    /\ tx = "None"
    /\ \E i, k \in WorkerIds :
          /\ workers[i].st = "recv" /\ rxLock = i
          /\ workers[k].st = "exec"

\* C19: after a job has panicked the receiver mutex is not poisoned, and the
\* process is not over while a job is queued and a worker is alive to take it.
C19_PanicLeavesPoolWorking ==
    (\E j \in JobIds : Panicked(j)) =>
        /\ ~poisoned
        /\ (queue # <<>> /\ \E i \in WorkerIds : ~Finished(workers[i]))
               => ProcessAlive

====
